---- MODULE Spec2Model ----
(***************************************************************************)
(* Signalling server of webrtc-node-app (src/server.js): room admission    *)
(* and relay on top of the socket.io in-memory adapter.                    *)
(*                                                                         *)
(* Every socket.io handler runs to completion, so each handler is one      *)
(* action.  The adapter keeps two maps: rooms (room -> Set of socket ids,  *)
(* a JS Set, i.e. insertion ordered and duplicate free) and sids (socket   *)
(* id -> Set of rooms).  Room identifiers are the strings clients supply;  *)
(* the private room socket.io opens under each socket's own random id is   *)
(* not modelled, client supplied identifiers are taken to differ from      *)
(* socket ids.                                                             *)
(***************************************************************************)
EXTENDS Integers, Sequences, FiniteSets, TLC

NumConns == 3
\* how many relay events the journal records
MaxJournal == 2

SocketIds == 1..NumConns
\* the room identifiers clients supply: arbitrary strings
RoomIds == {"42", "43"}

Sdps == {"sdpA"}
Candidates == {"candA"}
Labels == {0}

RelayKinds == {"start_call", "webrtc_offer", "webrtc_answer", "webrtc_ice_candidate"}

VARIABLES
  rooms,    \* io.sockets.adapter.rooms : Map<room, Set<socket id>>
  sids,     \* io.sockets.adapter.sids  : Map<socket id, Set<room>>; its keys are the live sockets
  last,     \* the inbound event handled by the last step
  emitted,  \* the packets the last handler sent, in emission order
  joinRun,  \* per room: the distinct connections that asked to join since the room was last absent
  departed, \* per room: how the last disconnect of an occupant left it, until its membership next changes
  created,  \* per room: the room_created replies sent for it since it came to exist (2 stands for 2 or more)
  budget,   \* how many more relay events the journal will record
  relayed,  \* the journal: the recorded relay events in the order the server handled them
  inbox     \* per socket: the recorded relay events written to it, in write order, by their journal position

vars == <<rooms, sids, last, emitted, joinRun, departed, created, budget, relayed, inbox>>

journal == <<budget, relayed, inbox>>

Range(s) == {s[i] : i \in 1..Len(s)}

NoRoom == ""
NoEvent == [none |-> TRUE]

\* a JS string travelling as an emit argument
Str(s) == [str |-> s]

(***************************************************************************)
(* JS Set operations on the occupant sets of the adapter.                  *)
(***************************************************************************)
SetAddNoDedupe(s, id) == Append(s, id)

\* Set.prototype.add: a member is held once, new members come last
SetAdd(s, id) == IF id \in Range(s) THEN s ELSE Append(s, id)

SetDelete(s, id) == SelectSeq(s, LAMBDA x : x # id)

\* Adapter.addAll(id, {room}) on the rooms map
AddAll(rms, id, room) ==
  LET base == IF room \in DOMAIN rms THEN rms[room] ELSE <<>>
  IN  [r \in DOMAIN rms \cup {room} |-> IF r = room THEN SetAdd(base, id) ELSE rms[r]]

DelAllKeepEmpty(rms, id, mine) ==
  [r \in DOMAIN rms |-> IF r \in mine THEN SetDelete(rms[r], id) ELSE rms[r]]

\* Adapter.delAll(id): leave every room in sids.get(id), dropping rooms that become empty
DelAll(rms, id, mine) ==
  LET after(r) == IF r \in mine THEN SetDelete(rms[r], id) ELSE rms[r]
  IN  [r \in {x \in DOMAIN rms : x \notin mine \/ after(x) # <<>>} |-> after(r)]

numberOfClientsAllSockets(rms, roomId) == Cardinality(DOMAIN sids)

\* const selectedRoom = rooms.get(roomId); selectedRoom ? selectedRoom.size : 0
numberOfClients(rms, roomId) == IF roomId \in DOMAIN rms THEN Len(rms[roomId]) ELSE 0

JoinBranchNoCap(n) == IF n = 0 THEN "room_created" ELSE "room_joined"

JoinBranchCopyPaste(n) == IF n <= 1 THEN "room_joined" ELSE "full_room"

JoinBranchCreateTwice(n) == IF n <= 1 THEN "room_created" ELSE "full_room"

JoinBranchLateCap(n) ==
  IF n = 0 THEN "room_created"
  ELSE IF n <= 2 THEN "room_joined"
  ELSE "full_room"

\* the if / else if / else of the join handler
JoinBranch(n) ==
  IF n = 0 THEN "room_created"
  ELSE IF n = 1 THEN "room_joined"
  ELSE "full_room"

BroadcastTargetsWithSender(rms, roomId, except) ==
  IF roomId \in DOMAIN rms THEN rms[roomId] ELSE <<>>

BroadcastTargetsAllSockets(rms, roomId, except) ==
  SelectSeq([i \in 1..NumConns |-> i], LAMBDA id : id \in DOMAIN sids /\ id \notin except)

BroadcastTargetsFallbackAll(rms, roomId, except) ==
  IF roomId \in DOMAIN rms
    THEN SelectSeq(rms[roomId], LAMBDA id : id \notin except)
    ELSE SelectSeq([i \in 1..NumConns |-> i], LAMBDA id : id \in DOMAIN sids /\ id \notin except)

\* socket.to(roomId): the sockets of the room in Set order, minus the excepted ids
BroadcastTargets(rms, roomId, except) ==
  IF roomId \in DOMAIN rms
    THEN SelectSeq(rms[roomId], LAMBDA id : id \notin except)
    ELSE <<>>

Packet(to, ev, args) == [to |-> to, ev |-> ev, args |-> args]

EmitToEverySocket(id, ev, args) ==
  LET all == SelectSeq([i \in 1..NumConns |-> i], LAMBDA s : s \in DOMAIN sids)
  IN  [i \in 1..Len(all) |-> Packet(all[i], ev, args)]

\* socket.emit(ev, ...args): one packet to the socket itself
EmitToSelf(id, ev, args) == <<Packet(id, ev, args)>>

\* socket.to(roomId).emit(ev, ...args): one packet per target, the sender excepted
EmitToRoom(rms, sender, roomId, ev, args) ==
  LET targets == BroadcastTargets(rms, roomId, {sender})
  IN  [i \in 1..Len(targets) |-> Packet(targets[i], ev, args)]

Request(kind, from, roomId, event) ==
  [kind |-> kind, from |-> from, roomId |-> roomId, event |-> event]

FreshRun == [who |-> {}, pure |-> TRUE]
BrokenRun == [who |-> {}, pure |-> FALSE]

Start(toRecord) ==
  /\ budget = toRecord
  /\ relayed = << >>
  /\ inbox = [s \in SocketIds |-> << >>]
  /\ rooms = << >>
  /\ sids = << >>
  /\ last = Request("none", 0, NoRoom, NoEvent)
  /\ emitted = << >>
  /\ joinRun = [r \in RoomIds |-> FreshRun]
  /\ departed = [r \in RoomIds |-> "none"]
  /\ created = [r \in RoomIds |-> 0]

\* the server right after new Server(server), nothing being journalled
Init == Start(0)

\* the same server, the first MaxJournal relay events being journalled
InitJournal == Start(MaxJournal)

\* io.on('connection'): a new socket with a fresh id, in no room
Connection(id) ==
  /\ id \notin DOMAIN sids
  /\ sids' = [s \in DOMAIN sids \cup {id} |-> IF s = id THEN {} ELSE sids[s]]
  /\ last' = Request("connection", id, NoRoom, NoEvent)
  /\ emitted' = << >>
  /\ UNCHANGED <<rooms, joinRun, departed, created, journal>>

RoomsAfterJoinEvicting(rms, id, roomId, branch) ==
  IF branch = "full_room" THEN rms
  ELSE [r \in DOMAIN rms \cup {roomId} |-> IF r = roomId THEN <<id>> ELSE rms[r]]

RoomsAfterJoinUnchecked(rms, id, roomId, branch) == AddAll(rms, id, roomId)

\* socket.join(roomId) is called in the room_created and room_joined branches only
RoomsAfterJoin(rms, id, roomId, branch) ==
  IF branch = "full_room" THEN rms ELSE AddAll(rms, id, roomId)

\* the sids side of socket.join(roomId)
SidsAfterJoin(sds, id, roomId, branch) ==
  IF branch = "full_room" THEN sds ELSE [sds EXCEPT ![id] = @ \cup {roomId}]

\* socket.on('join', (roomId) => ...)
Join(id, roomId) ==
  /\ id \in DOMAIN sids
  /\ LET branch == JoinBranch(numberOfClients(rooms, roomId))
     IN  /\ rooms' = RoomsAfterJoin(rooms, id, roomId, branch)
         /\ sids' = SidsAfterJoin(sids, id, roomId, branch)
         /\ emitted' = EmitToSelf(id, branch, <<Str(roomId)>>)
         /\ created' = [created EXCEPT ![roomId] =
                          IF branch # "room_created" THEN @
                          ELSE IF @ = 0 THEN 1 ELSE 2]
  /\ last' = Request("join", id, roomId, NoEvent)
  /\ joinRun' = [joinRun EXCEPT ![roomId] =
                   IF @.pure THEN [@ EXCEPT !.who = @ \cup {id}] ELSE @]
  /\ departed' = [departed EXCEPT ![roomId] =
                    IF @ = "emptied" THEN "reborn"
                    ELSE IF rooms' # rooms THEN "none"
                    ELSE @]
  /\ UNCHANGED journal

WriteToSocketFirst(box, at) == <<at>> \o box

\* a packet written to a socket follows the packets written before it
WriteToSocket(box, at) == Append(box, at)

\* the packets of one emit, written to their sockets in emission order
RECURSIVE Written(_, _, _)
Written(boxes, pkts, at) ==
  IF pkts = << >> THEN boxes
  ELSE Written([boxes EXCEPT ![Head(pkts).to] = WriteToSocket(@, at)], Tail(pkts), at)

\* the journal entry of a relay event and of the packets its handler has emitted
Journal(id, roomId) ==
  IF budget > 0
    THEN /\ budget' = budget - 1
         /\ relayed' = Append(relayed, [from |-> id, roomId |-> roomId])
         /\ inbox' = Written(inbox, emitted', Len(relayed) + 1)
    ELSE UNCHANGED journal

\* socket.on('start_call', (roomId) => ...)
StartCall(id, roomId) ==
  /\ id \in DOMAIN sids
  /\ emitted' = EmitToRoom(rooms, id, roomId, "start_call", << >>)
  /\ last' = Request("start_call", id, roomId, NoEvent)
  /\ UNCHANGED <<rooms, sids, joinRun, departed, created>>
  /\ Journal(id, roomId)

SdpArgsWholeEvent(event) == <<event>>

\* the argument list of emit('webrtc_offer', event.sdp) and emit('webrtc_answer', event.sdp)
SdpArgs(event) == <<Str(event.sdp)>>

\* socket.on('webrtc_offer', (event) => ...)
WebrtcOffer(id, event) ==
  /\ id \in DOMAIN sids
  /\ emitted' = EmitToRoom(rooms, id, event.roomId, "webrtc_offer", SdpArgs(event))
  /\ last' = Request("webrtc_offer", id, event.roomId, event)
  /\ UNCHANGED <<rooms, sids, joinRun, departed, created>>
  /\ Journal(id, event.roomId)

\* socket.on('webrtc_answer', (event) => ...)
WebrtcAnswer(id, event) ==
  /\ id \in DOMAIN sids
  /\ emitted' = EmitToRoom(rooms, id, event.roomId, "webrtc_answer", SdpArgs(event))
  /\ last' = Request("webrtc_answer", id, event.roomId, event)
  /\ UNCHANGED <<rooms, sids, joinRun, departed, created>>
  /\ Journal(id, event.roomId)

\* socket.on('webrtc_ice_candidate', (event) => ...)
WebrtcIceCandidate(id, event) ==
  /\ id \in DOMAIN sids
  /\ emitted' = EmitToRoom(rooms, id, event.roomId, "webrtc_ice_candidate", <<event>>)
  /\ last' = Request("webrtc_ice_candidate", id, event.roomId, event)
  /\ UNCHANGED <<rooms, sids, joinRun, departed, created>>
  /\ Journal(id, event.roomId)

\* how a disconnect of id leaves room r
Departure(rms, id, r, was) ==
  IF r \in DOMAIN rms /\ id \in Range(rms[r])
    THEN IF Len(rms[r]) = 1 THEN "emptied"
         ELSE IF Len(rms[r]) = 2 THEN "halved"
         ELSE "none"
    ELSE was

DisconnectEmitsPeerLeft(rms, id, mine) ==
  LET left == SelectSeq([i \in 1..NumConns |-> i],
                        LAMBDA s : s # id /\ \E r \in mine : r \in DOMAIN rms /\ s \in Range(rms[r]))
  IN  [i \in 1..Len(left) |-> Packet(left[i], "peer_left", << >>)]

\* server.js registers no 'disconnect' handler: a closing socket makes the server emit nothing
DisconnectEmits(rms, id, mine) == << >>

\* the transport closes: socket.io runs leaveAll() for the socket, no handler of server.js runs
Disconnect(id) ==
  /\ id \in DOMAIN sids
  /\ rooms' = DelAll(rooms, id, sids[id])
  /\ sids' = [s \in DOMAIN sids \ {id} |-> sids[s]]
  /\ emitted' = DisconnectEmits(rooms, id, sids[id])
  /\ last' = Request("disconnect", id, NoRoom, NoEvent)
  /\ joinRun' = [r \in RoomIds |->
                   IF r \notin DOMAIN rooms' THEN FreshRun
                   ELSE IF id \in Range(rooms[r]) THEN BrokenRun
                   ELSE [joinRun[r] EXCEPT !.who = @ \ {id}]]
  /\ departed' = [r \in RoomIds |-> Departure(rooms, id, r, departed[r])]
  /\ created' = [r \in RoomIds |-> IF r \in DOMAIN rooms' THEN created[r] ELSE 0]
  /\ inbox' = [inbox EXCEPT ![id] = << >>]
  /\ UNCHANGED <<budget, relayed>>

SdpEvents(type) == [roomId : RoomIds, sdp : Sdps, type : {type}]
IceEvents == [roomId : RoomIds, label : Labels, candidate : Candidates]

Next ==
  \/ \E id \in SocketIds : Connection(id)
  \/ \E id \in SocketIds, roomId \in RoomIds : Join(id, roomId)
  \/ \E id \in SocketIds, roomId \in RoomIds : StartCall(id, roomId)
  \/ \E id \in SocketIds, event \in SdpEvents("webrtc_offer") : WebrtcOffer(id, event)
  \/ \E id \in SocketIds, event \in SdpEvents("webrtc_answer") : WebrtcAnswer(id, event)
  \/ \E id \in SocketIds, event \in IceEvents : WebrtcIceCandidate(id, event)
  \/ \E id \in SocketIds : Disconnect(id)

Spec == Init /\ [][Next]_vars

\* the journalled runs keep to one room and end their relaying once the journal is full
JournalRooms == {"42"}

NextJournal ==
  \/ \E id \in SocketIds : Connection(id)
  \/ \E id \in SocketIds, roomId \in JournalRooms : Join(id, roomId)
  \/ \E id \in SocketIds, roomId \in JournalRooms :
       budget > 0 /\ StartCall(id, roomId)
  \/ \E id \in SocketIds, event \in SdpEvents("webrtc_offer") :
       budget > 0 /\ event.roomId \in JournalRooms /\ WebrtcOffer(id, event)
  \/ \E id \in SocketIds, event \in SdpEvents("webrtc_answer") :
       budget > 0 /\ event.roomId \in JournalRooms /\ WebrtcAnswer(id, event)
  \/ \E id \in SocketIds, event \in IceEvents :
       budget > 0 /\ event.roomId \in JournalRooms /\ WebrtcIceCandidate(id, event)
  \/ \E id \in SocketIds : Disconnect(id)

SpecJournal == InitJournal /\ [][NextJournal]_vars

(***************************************************************************)
(* Vocabulary of the properties.                                           *)
(***************************************************************************)
Members(rms, r) == IF r \in DOMAIN rms THEN Range(rms[r]) ELSE {}

Occupancy(rms, r) == IF r \in DOMAIN rms THEN Len(rms[r]) ELSE 0

RoomsOf(rms, id) == {r \in DOMAIN rms : id \in Range(rms[r])}

Outcomes == {"room_created", "room_joined", "full_room"}

Recipients(pkts) == [i \in 1..Len(pkts) |-> pkts[i].to]

NoDuplicates(s) == \A i, j \in 1..Len(s) : s[i] = s[j] => i = j

JoinReply(id, ev, roomId) == <<Packet(id, ev, <<Str(roomId)>>)>>

\* the adapter's two maps describe the same membership, and only live sockets are members
AdapterConsistent ==
  /\ DOMAIN rooms \subseteq RoomIds
  /\ DOMAIN sids \subseteq SocketIds
  /\ \A s \in DOMAIN sids : sids[s] = RoomsOf(rooms, s)
  /\ \A r \in DOMAIN rooms : Range(rooms[r]) \subseteq DOMAIN sids /\ NoDuplicates(rooms[r])

(***************************************************************************)
(* C1: in every reachable state every room has at most 2 occupants.        *)
(***************************************************************************)
C1_RoomCapacity == \A r \in DOMAIN rooms : Len(rooms[r]) <= 2

\* a third connection has just been turned away from a room holding two
C1_Witness ==
  /\ last.kind = "join"
  /\ Occupancy(rooms, last.roomId) = 2
  /\ last.from \notin Members(rooms, last.roomId)
  /\ emitted = JoinReply(last.from, "full_room", last.roomId)

(***************************************************************************)
(* C2: a join is decided by the occupancy of the requested room just       *)
(* before it: 0 adds the connection and replies room_created, 1 adds the   *)
(* connection and replies room_joined, 2 replies full_room; the reply      *)
(* carries the requested roomId.                                           *)
(***************************************************************************)
C2_JoinStep ==
  last'.kind = "join" =>
    LET id == last'.from
        r  == last'.roomId
        n  == Occupancy(rooms, r)
    IN  /\ n = 0 => /\ Members(rooms', r) = {id}
                    /\ emitted' = JoinReply(id, "room_created", r)
        /\ n = 1 => /\ Members(rooms', r) = Members(rooms, r) \cup {id}
                    /\ emitted' = JoinReply(id, "room_joined", r)
        /\ n = 2 => emitted' = JoinReply(id, "full_room", r)
        /\ n \in {0, 1, 2}

C2_JoinDecidedByOccupancy == [][C2_JoinStep]_vars

\* a second connection has just been admitted next to the creator
C2_Witness ==
  /\ last.kind = "join"
  /\ emitted = JoinReply(last.from, "room_joined", last.roomId)
  /\ Occupancy(rooms, last.roomId) = 2
  /\ rooms[last.roomId][2] = last.from

(***************************************************************************)
(* C3: in a run of joins to a fresh room by distinct connections, the 1st  *)
(* joiner gets room_created, the 2nd room_joined, every later one          *)
(* full_room while the occupancy stays 2.                                  *)
(***************************************************************************)
C3_JoinStep ==
  \A r \in RoomIds :
    (/\ last'.kind = "join"
     /\ last'.roomId = r
     /\ joinRun[r].pure
     /\ last'.from \notin joinRun[r].who) =>
      LET k == Cardinality(joinRun[r].who) + 1
      IN  /\ k = 1 => emitted' = JoinReply(last'.from, "room_created", r)
          /\ k = 2 => emitted' = JoinReply(last'.from, "room_joined", r)
          /\ k >= 3 => /\ emitted' = JoinReply(last'.from, "full_room", r)
                       /\ Occupancy(rooms, r) = 2
                       /\ Occupancy(rooms', r) = 2

C3_JoinSequence == [][C3_JoinStep]_vars

\* the third distinct joiner of an unbroken run has been answered full_room
C3_Witness ==
  /\ last.kind = "join"
  /\ joinRun[last.roomId].pure
  /\ Cardinality(joinRun[last.roomId].who) = 3
  /\ emitted = JoinReply(last.from, "full_room", last.roomId)

(***************************************************************************)
(* C4: a relay event whose sender is not an occupant of the named room is  *)
(* delivered to zero connections.                                          *)
(***************************************************************************)
C4_OutsiderRelayDropped ==
  (last.kind \in RelayKinds /\ last.from \notin Members(rooms, last.roomId))
    => emitted = << >>

(***************************************************************************)
(* C5: a connection is an occupant of at most one room.                    *)
(***************************************************************************)
C5_AtMostOneRoom == \A id \in DOMAIN sids : Cardinality(RoomsOf(rooms, id)) <= 1

(***************************************************************************)
(* C6: a relay event is received by exactly the occupants of the named     *)
(* room minus the sender, once each; with two occupants A and B an event   *)
(* of A reaches B once and never A.                                        *)
(***************************************************************************)
C6_RelayStep ==
  last'.kind \in RelayKinds =>
    /\ Range(Recipients(emitted')) = Members(rooms, last'.roomId) \ {last'.from}
    /\ NoDuplicates(Recipients(emitted'))
    /\ \A i \in 1..Len(emitted') : emitted'[i].ev = last'.kind

C6_RelayRecipients == [][C6_RelayStep]_vars

\* one of two occupants has relayed and the other one got the single packet
C6_Witness ==
  /\ last.kind \in RelayKinds
  /\ Occupancy(rooms, last.roomId) = 2
  /\ last.from \in Members(rooms, last.roomId)
  /\ Len(emitted) = 1
  /\ emitted[1].to \in Members(rooms, last.roomId) \ {last.from}

(***************************************************************************)
(* C7: a join produces exactly one outcome event, delivered to the joining *)
(* connection and to nobody else.                                          *)
(***************************************************************************)
C7_JoinReplyToRequesterOnly ==
  last.kind = "join" =>
    /\ Len(emitted) = 1
    /\ emitted[1].to = last.from
    /\ emitted[1].ev \in Outcomes

\* a join was answered while another connection occupies the room
C7_Witness ==
  /\ last.kind = "join"
  /\ Len(emitted) = 1
  /\ emitted[1].to = last.from
  /\ Members(rooms, last.roomId) \ {last.from} # {}

(***************************************************************************)
(* C8: a join answered full_room leaves the room table and every           *)
(* connection's membership as they were; a join changes membership only    *)
(* when it is answered room_created or room_joined.                        *)
(***************************************************************************)
C8_JoinStep ==
  last'.kind = "join" =>
    /\ emitted'[1].ev = "full_room" => (rooms' = rooms /\ sids' = sids)
    /\ (rooms' # rooms \/ sids' # sids) => emitted'[1].ev \in {"room_created", "room_joined"}

C8_FullRoomChangesNothing == [][C8_JoinStep]_vars

\* a rejected connection that occupies another room: the rejection touched neither room
C8_Witness ==
  /\ last.kind = "join"
  /\ emitted = JoinReply(last.from, "full_room", last.roomId)
  /\ sids[last.from] # {}
  /\ last.roomId \notin sids[last.from]

(***************************************************************************)
(* C9: when the sole occupant of a room disconnects the room is removed,   *)
(* and the next join to that room identifier is answered room_created.     *)
(***************************************************************************)
C9_Step ==
  /\ last'.kind = "disconnect" =>
       \A r \in DOMAIN rooms : Members(rooms, r) = {last'.from} => r \notin DOMAIN rooms'
  /\ \A r \in RoomIds :
       (last'.kind = "join" /\ last'.roomId = r /\ departed[r] = "emptied") =>
         emitted' = JoinReply(last'.from, "room_created", r)

C9_SoleOccupantLeaves == [][C9_Step]_vars

\* the room was emptied by a disconnect and the next join has recreated it
C9_Witness ==
  /\ last.kind = "join"
  /\ departed[last.roomId] = "reborn"
  /\ emitted = JoinReply(last.from, "room_created", last.roomId)

(***************************************************************************)
(* C10: when one of two occupants disconnects the room keeps exactly the   *)
(* survivor, and what the survivor relays to the room before another       *)
(* connection joins reaches nobody.                                        *)
(***************************************************************************)
C10_Step ==
  /\ last'.kind = "disconnect" =>
       \A r \in DOMAIN rooms :
         (Occupancy(rooms, r) = 2 /\ last'.from \in Members(rooms, r)) =>
           /\ Occupancy(rooms', r) = 1
           /\ Members(rooms', r) = Members(rooms, r) \ {last'.from}
  /\ \A r \in RoomIds :
       (/\ last'.kind \in RelayKinds
        /\ last'.roomId = r
        /\ departed[r] = "halved"
        /\ last'.from \in Members(rooms, r)) => emitted' = << >>

C10_SurvivorAlone == [][C10_Step]_vars

\* the survivor of a halved room has relayed to it
C10_Witness ==
  /\ last.kind \in RelayKinds
  /\ departed[last.roomId] = "halved"
  /\ Members(rooms, last.roomId) = {last.from}
  /\ emitted = << >>

(***************************************************************************)
(* C11: the room table holds no room with zero occupants; a room exists    *)
(* exactly while some connection occupies it.                              *)
(***************************************************************************)
C11_NoEmptyRoom ==
  /\ \A r \in DOMAIN rooms : rooms[r] # << >>
  /\ \A r \in RoomIds : r \in DOMAIN rooms <=> \E id \in DOMAIN sids : r \in sids[id]

\* a disconnect has just taken the last occupant out of a room
C11_Witness ==
  /\ last.kind = "disconnect"
  /\ \E r \in RoomIds : departed[r] = "emptied" /\ r \notin DOMAIN rooms
  /\ rooms # << >>

(***************************************************************************)
(* C12: a disconnect emits no event to any connection; the occupant left   *)
(* behind receives nothing.                                                *)
(***************************************************************************)
C12_DisconnectIsSilent == last.kind = "disconnect" => emitted = << >>

\* one of two occupants has just disconnected, the other is still in the room
C12_Witness ==
  /\ last.kind = "disconnect"
  /\ emitted = << >>
  /\ \E r \in DOMAIN rooms : departed[r] = "halved" /\ Occupancy(rooms, r) = 1

(***************************************************************************)
(* C13: a relayed payload is the inbound one, untransformed: start_call    *)
(* carries nothing, webrtc_offer and webrtc_answer carry exactly the sdp   *)
(* field, webrtc_ice_candidate carries the whole inbound event object.     *)
(***************************************************************************)
C13_RelayPayload ==
  last.kind \in RelayKinds =>
    \A i \in 1..Len(emitted) :
      /\ emitted[i].ev = last.kind
      /\ last.kind = "start_call" => emitted[i].args = << >>
      /\ last.kind \in {"webrtc_offer", "webrtc_answer"} =>
           /\ emitted[i].args = <<[str |-> last.event.sdp]>>
           /\ last.event.sdp \notin {last.event.roomId, last.event.type}
      /\ last.kind = "webrtc_ice_candidate" =>
           /\ emitted[i].args = <<last.event>>
           /\ DOMAIN emitted[i].args[1] = {"roomId", "label", "candidate"}

\* an offer has reached the other occupant
C13_Witness ==
  /\ last.kind = "webrtc_offer"
  /\ Len(emitted) = 1
  /\ emitted[1].args = <<[str |-> "sdpA"]>>

(***************************************************************************)
(* C14: a connection turned away with full_room, not being an occupant,    *)
(* never receives what an occupant relays to the room; after 1, 2, 3 join  *)
(* "42" in order, a start_call("42") of 2 reaches 1 only.                  *)
(***************************************************************************)
C14_OutsidersReceiveNothing ==
  last.kind \in RelayKinds =>
    \A i \in 1..Len(emitted) :
      /\ emitted[i].to \in Members(rooms, last.roomId)
      /\ emitted[i].to # last.from

\* the scenario: 1, 2 and 3 asked for "42" in this order, then 2 sent start_call("42")
C14_Witness ==
  /\ "42" \in DOMAIN rooms
  /\ rooms["42"] = <<1, 2>>
  /\ 3 \in DOMAIN sids
  /\ joinRun["42"] = [who |-> {1, 2, 3}, pure |-> TRUE]
  /\ last = Request("start_call", 2, "42", NoEvent)
  /\ emitted = <<Packet(1, "start_call", << >>)>>

(***************************************************************************)
(* C15: what the sole occupant of a room relays to it reaches nobody,      *)
(* whichever of the four kinds it is.                                      *)
(***************************************************************************)
C15_SoleOccupantRelay ==
  \A kind \in RelayKinds :
    (last.kind = kind /\ Members(rooms, last.roomId) = {last.from}) => emitted = << >>

\* the creator of a room, still alone and never having had a peer, has sent a candidate
C15_Witness ==
  /\ last.kind = "webrtc_ice_candidate"
  /\ Members(rooms, last.roomId) = {last.from}
  /\ departed[last.roomId] = "none"
  /\ joinRun[last.roomId].pure
  /\ emitted = << >>

(***************************************************************************)
(* C16: a relay event naming a room without occupants produces no          *)
(* delivery and leaves the room table as it was (the room is not created). *)
(***************************************************************************)
C16_Step ==
  (last'.kind \in RelayKinds /\ Occupancy(rooms, last'.roomId) = 0) =>
    /\ emitted' = << >>
    /\ rooms' = rooms
    /\ sids' = sids
    /\ last'.roomId \notin DOMAIN rooms'

C16_EmptyRoomRelay == [][C16_Step]_vars

\* a relay named a room nobody occupies while another connection is live elsewhere
C16_Witness ==
  /\ last.kind \in RelayKinds
  /\ last.roomId \notin DOMAIN rooms
  /\ emitted = << >>
  /\ DOMAIN sids \ {last.from} # {}

(***************************************************************************)
(* C18: the number of rooms never exceeds the number of live connections.  *)
(***************************************************************************)
C18_RoomsBoundedByConnections == Cardinality(DOMAIN rooms) <= Cardinality(DOMAIN sids)

(***************************************************************************)
(* C20: handlers being atomic, under any interleaving of the events of     *)
(* different connections at most one room_created is emitted for a room    *)
(* between its creation and its deletion.                                  *)
(***************************************************************************)
C20_OneCreationPerLifetime ==
  \A r \in RoomIds :
    /\ created[r] <= 1
    /\ r \notin DOMAIN rooms => created[r] = 0

\* a room in its second life: emptied by a disconnect, then created again with one more room_created
C20_Witness ==
  \E r \in DOMAIN rooms :
    /\ departed[r] = "reborn"
    /\ created[r] = 1
    /\ last.kind = "join"
    /\ last.roomId = r
    /\ emitted = JoinReply(last.from, "room_created", r)

(***************************************************************************)
(* C17: relay is at most once and unbuffered: a relay event is written at  *)
(* most once to any connection, only while the server handles it and only  *)
(* to the occupants of that moment; an event handled while the room had no *)
(* other occupant never reaches a connection that joins afterwards.        *)
(***************************************************************************)
C17_Step ==
  \A s \in SocketIds :
    /\ NoDuplicates(inbox'[s])
    /\ inbox'[s] # inbox[s] =>
         \/ last'.kind = "disconnect" /\ last'.from = s /\ inbox'[s] = << >>
         \/ /\ last'.kind \in RelayKinds
            /\ Len(relayed') = Len(relayed) + 1
            /\ inbox'[s] = Append(inbox[s], Len(relayed'))
            /\ s \in Members(rooms, last'.roomId) \ {last'.from}

C17_AtMostOnceUnbuffered == [][C17_Step]_vars

\* the first occupant relayed to the room before its peer joined: the peer's socket was written nothing
C17_Witness ==
  \E r \in DOMAIN rooms :
    /\ Len(relayed) >= 1
    /\ relayed[1] = [from |-> rooms[r][1], roomId |-> r]
    /\ joinRun[r].pure
    /\ Occupancy(rooms, r) = 2
    /\ last = Request("join", rooms[r][2], r, NoEvent)
    /\ \A s \in SocketIds : inbox[s] = << >>

(***************************************************************************)
(* C19: the relay events of one connection reach the other occupant in the *)
(* order in which the server handled them.                                 *)
(***************************************************************************)
C19_RelayOrder ==
  \A s \in SocketIds :
    \A i, j \in 1..Len(inbox[s]) :
      (i < j /\ relayed[inbox[s][i]].from = relayed[inbox[s][j]].from)
        => inbox[s][i] < inbox[s][j]

\* two events of one sender have both been written to the same peer
C19_Witness ==
  \E s \in SocketIds :
    /\ Len(inbox[s]) = 2
    /\ relayed[inbox[s][1]].from = relayed[inbox[s][2]].from
    /\ relayed[inbox[s][1]].from # s

(***************************************************************************)
(* C21: whenever a connection receives room_joined(roomId) the room has    *)
(* exactly 2 occupants right after that join, also when the sole occupant  *)
(* of roomId sends join(roomId) again.                                     *)
(***************************************************************************)
C21_JoinedMeansPaired ==
  (last.kind = "join" /\ emitted = JoinReply(last.from, "room_joined", last.roomId))
    => Occupancy(rooms, last.roomId) = 2

(***************************************************************************)
(* C22: membership ends only by disconnect and ends completely on          *)
(* disconnect: a live admitted connection stays an occupant through every  *)
(* later join and relay, relay events change no membership, a disconnected *)
(* connection occupies no room, and every occupant is a live connection.   *)
(***************************************************************************)
C22_Step ==
  /\ \A id \in DOMAIN sids \cap DOMAIN sids' : RoomsOf(rooms, id) \subseteq RoomsOf(rooms', id)
  /\ \A id \in DOMAIN sids \ DOMAIN sids' : last'.kind = "disconnect" /\ last'.from = id
  /\ last'.kind \in RelayKinds => (rooms' = rooms /\ sids' = sids)
  /\ last'.kind = "disconnect" =>
       /\ last'.from \notin DOMAIN sids'
       /\ RoomsOf(rooms', last'.from) = {}
  /\ \A r \in DOMAIN rooms' : Range(rooms'[r]) \subseteq DOMAIN sids'

C22_MembershipEndsByDisconnectOnly == [][C22_Step]_vars

\* a connection in two rooms has closed: it is gone from both, its peer stays in the one they shared
C22_Witness ==
  /\ last.kind = "disconnect"
  /\ last.from \notin DOMAIN sids
  /\ RoomsOf(rooms, last.from) = {}
  /\ \E r \in DOMAIN rooms, q \in RoomIds :
       /\ departed[r] = "halved"
       /\ departed[q] = "emptied"
       /\ Occupancy(rooms, r) = 1
====
